---- MODULE Spec2Model ----
(***************************************************************************)
(* Model of dork/types.py: the minimap builder (Map.__init__ and its two   *)
(* static helpers), the minimap renderer (Map.show / Map.update) and the   *)
(* save/load records (Game, Player, Room, Item, Nonplayer).                *)
(*                                                                         *)
(* A Python dict is insertion ordered; where the code iterates one, the    *)
(* model keeps the key order next to the mapping.                          *)
(***************************************************************************)
EXTENDS Integers, Sequences, FiniteSets, TLC

\* ------------------------------------------------------------------ bounds
\* Number of non-null up/down/left/right exits in a world of the minimap runs.
MaxExits == 2
\* Number of non-null exits in a world document of the save/load runs.
MaxSaveExits == 1

\* ------------------------------------------------------------ vocabulary
\* The room names of the minimap runs and of the save/load runs.
Names == {"A", "B", "C"}
SaveNames == {"A", "B"}
\* Python's None (a null exit, an absent field).
None == "None"
\* The list literal of types.py line 89.
Directions == <<"up", "down", "left", "right">>
DirSet == {Directions[k] : k \in 1..Len(Directions)}

NoError == ""
KeyError == "KeyError"
EmptyMin == "ValueError: min() arg is an empty sequence"
NotInList == "ValueError: is not in list"

Range(s) == {s[k] : k \in 1..Len(s)}

VARIABLES
    rooms,      \* game.rooms: room name -> that room's paths (direction -> name or None)
    roomKeys,   \* list(rooms.keys()): the iteration order of the room mapping
    location,   \* game.player.position["location"]
    pc,         \* where Map.__init__ stands, then the state of the figure
    error,      \* the exception that ended the last call, NoError if none
    i,          \* how many (room, direction) pairs the loops of lines 88-91 have done
    nodes,      \* the nodes dict: .name is its str keys (provisional ids), .id its int keys (old id -> new id)
    origins,    \* the origins dict: .keys its insertion order, .at the Point of each key
    edges,      \* the edges list of _construct_minimap
    minimap,    \* the networkx graph of __init__: .nodes in insertion order, .adj the neighbours of each node in insertion order
    dx, dy,     \* the locals dx, dy of __init__
    width,      \* the local width of __init__
    room_map,   \* self.room_map: room -> [node_id, edges]
    figure,     \* what the last show() drew
    world,      \* the world document D handed to Game()
    game,       \* the Game built last
    snap1,      \* save() of the Game built from D
    snap2,      \* save() of the Game built from snap1
    spc         \* where the load/save round trip stands

mapVars == <<rooms, roomKeys, location, pc, error, i, nodes, origins, edges,
             minimap, dx, dy, width, room_map, figure>>
saveVars == <<world, game, snap1, snap2, spc>>
vars == <<mapVars, saveVars>>

\* ------------------------------------------------------------------ Point
Point(px, py) == [x |-> px, y |-> py]

\* ------------------------------------------------------- ordered dict ops
EmptyDict == [keys |-> <<>>, at |-> <<>>]
Has(d, k) == k \in Range(d.keys)
\* d[k] = v: a new key goes last, an old key keeps its place.
Put(d, k, v) ==
    [keys |-> IF Has(d, k) THEN d.keys ELSE Append(d.keys, k),
     at |-> [n \in Range(d.keys) \cup {k} |-> IF n = k THEN v ELSE d.at[n]]]

\* Lines 60-68: the source's coordinate moved one unit along the direction.
Displace(p, direction) ==
    [x |-> p.x - (IF direction = "left" THEN 1 ELSE 0)
               + (IF direction = "right" THEN 1 ELSE 0),
     y |-> p.y - (IF direction = "up" THEN 1 ELSE 0)
               + (IF direction = "down" THEN 1 ELSE 0)]

\* A variant that leaves an already placed destination where it is.
AdjustFirstWins(room, direction, org, name, nds) ==
    LET dest == room[direction]
        o1 == IF Has(org, name) THEN org ELSE Put(org, name, Point(0, 0))
        o3 == IF Has(o1, dest) THEN o1
              ELSE Put(o1, dest, Displace(o1.at[name], direction))
    IN  IF dest = None THEN [origins |-> org, edge |-> <<>>, error |-> NoError]
        ELSE IF dest \notin DOMAIN nds
             THEN [origins |-> o3, edge |-> <<>>, error |-> KeyError]
             ELSE [origins |-> o3, edge |-> <<nds[name], nds[dest]>>,
                   error |-> NoError]

\* A variant that puts the source back at (0, 0) on every call.
AdjustResetSource(room, direction, org, name, nds) ==
    LET dest == room[direction]
        o1 == Put(org, name, Point(0, 0))
        o2 == IF Has(o1, dest) THEN o1 ELSE Put(o1, dest, Point(0, 0))
        o3 == Put(o2, dest, Displace(o2.at[name], direction))
    IN  IF dest = None THEN [origins |-> org, edge |-> <<>>, error |-> NoError]
        ELSE IF dest \notin DOMAIN nds
             THEN [origins |-> o3, edge |-> <<>>, error |-> KeyError]
             ELSE [origins |-> o3, edge |-> <<nds[name], nds[dest]>>,
                   error |-> NoError]

\* Map._adjust_minimap_origins: the origins dict after the call, the edge
\* tuple it returns, and the exception it raises.
AdjustMinimapOrigins(room, direction, org, name, nds) ==
    LET dest == room[direction]
        o1 == IF Has(org, name) THEN org ELSE Put(org, name, Point(0, 0))
        o2 == IF Has(o1, dest) THEN o1 ELSE Put(o1, dest, Point(0, 0))
        o3 == Put(o2, dest, Displace(o2.at[name], direction))
    IN  IF dest = None THEN [origins |-> org, edge |-> <<>>, error |-> NoError]
        ELSE IF dest \notin DOMAIN nds
             THEN [origins |-> o3, edge |-> <<>>, error |-> KeyError]
             ELSE [origins |-> o3, edge |-> <<nds[name], nds[dest]>>,
                   error |-> NoError]

\* The room and the direction of the k-th pass (k from 0) of the nested loops.
SlotName(keys, k) == keys[(k \div Len(Directions)) + 1]
SlotDirection(k) == Directions[(k % Len(Directions)) + 1]

\* --------------------------------------------------------------- the graph
NewGraph(ids) == [nodes |-> ids, adj |-> [n \in Range(ids) |-> <<>>]]
Link(g, u, v) ==
    IF v \in Range(g.adj[u]) THEN g
    ELSE [g EXCEPT !.adj[u] = Append(@, v)]
\* A variant that records the edge at its first end only.
AddEdgeDirected(g, e) == Link(g, e[1], e[2])
\* networkx Graph.add_edge: each end becomes a neighbour of the other.
AddEdge(g, e) == Link(Link(g, e[1], e[2]), e[2], e[1])

RECURSIVE AddEdgesFrom(_, _)
AddEdgesFrom(g, es) ==
    IF es = <<>> THEN g ELSE AddEdgesFrom(AddEdge(g, Head(es)), Tail(es))

\* A variant that also drops the edges from a room to itself.
KeepProperEdges(es) == SelectSeq(es, LAMBDA e : e # <<>> /\ e[1] # e[2])
\* filter(lambda edge: edge, edges): the empty tuples go.
KeepEdges(es) == SelectSeq(es, LAMBDA e : e # <<>>)

\* ------------------------------------------------------------ normalization
Xs(org) == {org.at[n].x : n \in Range(org.keys)}
Ys(org) == {org.at[n].y : n \in Range(org.keys)}
Min(S) == CHOOSE m \in S : \A n \in S : m <= n
Max(S) == CHOOSE m \in S : \A n \in S : m >= n
Abs(n) == IF n < 0 THEN -n ELSE n

\* A variant that shifts by one unit too few.
ShiftShort(org, ddx, ddy) ==
    [org EXCEPT !.at = [n \in DOMAIN @ |->
        [x |-> IF ddx < 0 THEN @[n].x + Abs(ddx) - 1 ELSE @[n].x,
         y |-> IF ddy < 0 THEN @[n].y + Abs(ddy) - 1 ELSE @[n].y]]]
\* Lines 130-135.
Shift(org, ddx, ddy) ==
    [org EXCEPT !.at = [n \in DOMAIN @ |->
        [x |-> IF ddx < 0 THEN @[n].x + Abs(ddx) ELSE @[n].x,
         y |-> IF ddy < 0 THEN @[n].y + Abs(ddy) ELSE @[n].y]]]

\* --------------------------------------------------------------- node ids
\* A variant that takes the largest x for the width.
WidthShort(org) == Max(Xs(org))
\* Line 137.
Width(org) == Max(Xs(org)) + 1
\* Line 142.
NodeId(p, w) == p.x + p.y * w

\* Lines 141-144, the int keys of nodes: old id -> new id.
Remap(org, nds, w) ==
    [k \in {nds[n] : n \in Range(org.keys)} |->
        NodeId(org.at[CHOOSE n \in Range(org.keys) : nds[n] = k], w)]

\* Lines 139-147.
RoomMap(org, nds, g, w) ==
    [n \in Range(org.keys) |->
        [node_id |-> NodeId(org.at[n], w),
         edges |-> [k \in 1..Len(g.adj[nds[n]]) |->
                        Remap(org, nds, w)[g.adj[nds[n]][k]]]]]

\* ------------------------------------------------------------------ show
\* labels[id] = room on an ordered dict kept as a sequence of <<id, room>>.
RECURSIVE SetLabel(_, _, _)
SetLabel(ls, id, room) ==
    IF ls = <<>> THEN <<<<id, room>>>>
    ELSE IF Head(ls)[1] = id THEN <<<<id, room>>>> \o Tail(ls)
    ELSE <<Head(ls)>> \o SetLabel(Tail(ls), id, room)

\* Lines 159-160, over the first k keys of room_map.
RECURSIVE Labels(_, _, _)
Labels(rm, keys, k) ==
    IF k = 0 THEN <<>>
    ELSE SetLabel(Labels(rm, keys, k - 1), rm[keys[k]].node_id, keys[k])

Blank == [error |-> NoError, nodes |-> <<>>, colors |-> <<>>, labels |-> <<>>]

\* A variant that paints the first node when the lookup finds nothing.
ShowFallback(rm, keys, loc) ==
    LET labels == Labels(rm, keys, Len(keys))
        hits == {k \in 1..Len(labels) : labels[k][2] = loc}
        at == IF hits = {} THEN 1 ELSE Min(hits)
    IN  [error |-> NoError,
         nodes |-> [k \in 1..Len(labels) |-> labels[k][1]],
         colors |-> [k \in 1..Len(labels) |-> IF k = at THEN "red" ELSE "blue"],
         labels |-> labels]

\* Map.show: plt.clf(), then the labels, the colours and the drawn nodes.
\* The graph's nodes are the node ids of room_map in first-seen order, which
\* is the key order of labels, so colour k goes to node k.
Show(rm, keys, loc) ==
    LET labels == Labels(rm, keys, Len(keys))
        hits == {k \in 1..Len(labels) : labels[k][2] = loc}
    IN  IF hits = {} THEN [Blank EXCEPT !.error = NotInList]
        ELSE [error |-> NoError,
              nodes |-> [k \in 1..Len(labels) |-> labels[k][1]],
              colors |-> [k \in 1..Len(labels) |->
                            IF k = Min(hits) THEN "red" ELSE "blue"],
              labels |-> labels]

\* ------------------------------------------------------------------ worlds
Slots(keys) == Range(keys) \X DirSet
ExitSets(keys, names, most) ==
    UNION {[S -> names] :
              S \in {T \in SUBSET Slots(keys) : Cardinality(T) <= most}}
PathsOf(keys, f) ==
    [n \in Range(keys) |-> [d \in DirSet |->
        IF <<n, d>> \in DOMAIN f THEN f[<<n, d>>] ELSE None]]
RECURSIVE Orders(_)
Orders(S) ==
    IF S = {} THEN {<<>>}
    ELSE UNION {{<<n>> \o o : o \in Orders(S \ {n})} : n \in S}
KeyOrders(names) == UNION {Orders(S) : S \in SUBSET names \ {{}}}
\* nodes of lines 122-123: the k-th key gets k-1.
NodesOf(keys) ==
    [n \in Range(keys) |-> (CHOOSE k \in 1..Len(keys) : keys[k] = n) - 1]

\* ------------------------------------------------- Map.__init__ in one go
\* _construct_minimap after k passes of its loops: origins, edges and the
\* exception that stopped it.
RECURSIVE ConstructMinimap(_, _, _, _)
ConstructMinimap(rms, keys, nds, k) ==
    IF k = 0 THEN [origins |-> EmptyDict, edges |-> <<>>, error |-> NoError]
    ELSE LET prev == ConstructMinimap(rms, keys, nds, k - 1)
             r == AdjustMinimapOrigins(rms[SlotName(keys, k - 1)],
                      SlotDirection(k - 1), prev.origins,
                      SlotName(keys, k - 1), nds)
         IN  IF prev.error # NoError THEN prev
             ELSE [origins |-> r.origins,
                   edges |-> IF r.error = NoError
                             THEN Append(prev.edges, r.edge) ELSE prev.edges,
                   error |-> r.error]

\* Map(game): the exception it raises, and origins, room_map and the figure.
MapInit(rms, keys, loc) ==
    LET nds == NodesOf(keys)
        c == ConstructMinimap(rms, keys, nds, Len(keys) * Len(Directions))
        g == AddEdgesFrom(NewGraph([k \in 1..Len(keys) |-> k - 1]),
                          KeepEdges(c.edges))
        o == Shift(c.origins, Min(Xs(c.origins)), Min(Ys(c.origins)))
        rm == RoomMap(o, nds, g, Width(o))
        fig == Show(rm, o.keys, loc)
    IN  IF c.error # NoError
        THEN [error |-> c.error, origins |-> c.origins, room_map |-> <<>>,
              figure |-> Blank]
        ELSE IF c.origins.keys = <<>>
        THEN [error |-> EmptyMin, origins |-> c.origins, room_map |-> <<>>,
              figure |-> Blank]
        ELSE [error |-> fig.error, origins |-> o, room_map |-> rm,
              figure |-> fig]

\* ------------------------------------------------------------ save / load
\* dict.get(key): None for a missing key.
Get(d, k) == IF k \in DOMAIN d THEN d[k] ELSE None

\* Player.__init__ and Player.save.
PlayerInit(data) ==
    [position |-> Get(data, "position"),
     inventory |-> Get(data, "inventory"),
     stats |-> Get(data, "stats")]
PlayerSave(self) ==
    [position |-> self.position,
     inventory |-> self.inventory,
     stats |-> self.stats]

\* Room.__init__ and Room.save.
RoomInit(data) ==
    [messages |-> Get(data, "messages"),
     door |-> Get(data, "door"),
     fight |-> Get(data, "fight"),
     paths |-> Get(data, "paths")]
\* A variant that writes door and fight under each other's key.
RoomSaveSwapped(self) ==
    [messages |-> self.messages,
     door |-> self.fight,
     fight |-> self.door,
     paths |-> self.paths]
RoomSave(self) ==
    [messages |-> self.messages,
     door |-> self.door,
     fight |-> self.fight,
     paths |-> self.paths]

\* Item.__init__ and Item.save.
ItemInit(data) ==
    [description |-> Get(data, "description"),
     damage |-> Get(data, "damage")]
ItemSave(self) ==
    [description |-> self.description,
     damage |-> self.damage]

\* Nonplayer.__init__ and Nonplayer.save.
NonplayerInit(data) ==
    [health |-> Get(data, "health"),
     attack |-> Get(data, "attack"),
     points |-> Get(data, "points")]
NonplayerSave(self) ==
    [health |-> self.health,
     attack |-> self.attack,
     points |-> self.points]

\* Game.__init__: the entities, and the exception Map(self) raises.  rooms
\* is an ordered dict; items and npc are iterated by nothing that depends on
\* their order and are kept as plain mappings.
GameInit(data) ==
    LET player == PlayerInit(data.player)
        rms == [keys |-> data.rooms.keys,
                at |-> [n \in DOMAIN data.rooms.at |-> RoomInit(data.rooms.at[n])]]
    IN  [player |-> player,
         rooms |-> rms,
         items |-> [n \in DOMAIN data.items |-> ItemInit(data.items[n])],
         npc |-> [n \in DOMAIN data.npc |-> NonplayerInit(data.npc[n])],
         error |-> MapInit([n \in DOMAIN rms.at |-> rms.at[n].paths],
                           rms.keys, player.position.location).error]

\* Game.save.
GameSave(self) ==
    [player |-> PlayerSave(self.player),
     rooms |-> [keys |-> self.rooms.keys,
                at |-> [n \in DOMAIN self.rooms.at |-> RoomSave(self.rooms.at[n])]],
     items |-> [n \in DOMAIN self.items |-> ItemSave(self.items[n])],
     npc |-> [n \in DOMAIN self.npc |-> NonplayerSave(self.npc[n])]]

\* World documents.  A field's value is opaque to the code; the documents
\* use the field's own name for it.  A record of a document has all the
\* fields its class reads, or all but one, or all and one the class never
\* reads.
Shapes(fields, other) ==
    {fields, fields \cup {other}} \cup {fields \ {k} : k \in fields}
Records(fields, other) == {[k \in S |-> k] : S \in Shapes(fields, other)}
WithField(d, k, v) == [n \in DOMAIN d \cup {k} |-> IF n = k THEN v ELSE d[n]]

PlayerDocs(keys) ==
    {WithField(d, "position", [location |-> r]) :
        d \in Records({"inventory", "stats"}, "name"), r \in Range(keys)}
RoomDocs(keys, paths) ==
    {[keys |-> keys, at |-> [n \in Range(keys) |-> WithField(d, "paths", paths[n])]] :
        d \in Records({"messages", "door", "fight"}, "items")}
ItemDocs ==
    {<<>>} \cup {[n \in {"sword"} |-> d] :
                    d \in Records({"description", "damage"}, "holds")}
NpcDocs ==
    {<<>>} \cup {[n \in {"troll"} |-> d] :
                    d \in Records({"health", "attack", "points"}, "name")}

\* ------------------------------------------------------ the round trip
\* No Game yet; the document D is any world document.
InitSave ==
    /\ \E keys \in KeyOrders(SaveNames) :
       \E f \in ExitSets(keys, SaveNames, MaxSaveExits) :
          world \in [player : PlayerDocs(keys),
                     rooms : RoomDocs(keys, PathsOf(keys, f)),
                     items : ItemDocs,
                     npc : NpcDocs]
    /\ game = None
    /\ snap1 = None
    /\ snap2 = None
    /\ spc = "load"
    /\ rooms = <<>>
    /\ roomKeys = <<>>
    /\ location = None
    /\ pc = "off"
    /\ error = NoError
    /\ i = 0
    /\ nodes = [name |-> <<>>, id |-> <<>>]
    /\ origins = EmptyDict
    /\ edges = <<>>
    /\ minimap = NewGraph(<<>>)
    /\ dx = 0
    /\ dy = 0
    /\ width = 0
    /\ room_map = <<>>
    /\ figure = Blank

\* Game(D).
Load ==
    /\ spc = "load"
    /\ game' = GameInit(world)
    /\ spc' = IF game'.error = NoError THEN "save" ELSE "load failed"
    /\ UNCHANGED <<world, snap1, snap2, mapVars>>

\* The first save().
Save ==
    /\ spc = "save"
    /\ snap1' = GameSave(game)
    /\ spc' = "reload"
    /\ UNCHANGED <<world, game, snap2, mapVars>>

\* Game(snapshot).
Reload ==
    /\ spc = "reload"
    /\ game' = GameInit(snap1)
    /\ spc' = IF game'.error = NoError THEN "resave" ELSE "reload failed"
    /\ UNCHANGED <<world, snap1, snap2, mapVars>>

\* The second save().
Resave ==
    /\ spc = "resave"
    /\ snap2' = GameSave(game)
    /\ spc' = "done"
    /\ UNCHANGED <<world, game, snap1, mapVars>>

NextSave ==
    \/ Load
    \/ Save
    \/ Reload
    \/ Resave

SpecSave == InitSave /\ [][NextSave]_vars

\* ------------------------------------------------------------------- Init
\* Game.__init__ has built player and rooms; Map.__init__ has run lines
\* 119-124 and is about to call _construct_minimap.
Init ==
    /\ roomKeys \in KeyOrders(Names)
    /\ rooms \in {PathsOf(roomKeys, f) : f \in ExitSets(roomKeys, Names, MaxExits)}
    /\ location \in Range(roomKeys)
    /\ pc = "construct"
    /\ error = NoError
    /\ i = 0
    /\ nodes = [name |-> NodesOf(roomKeys), id |-> <<>>]
    /\ origins = EmptyDict
    /\ edges = <<>>
    /\ minimap = NewGraph([k \in 1..Len(roomKeys) |-> k - 1])
    /\ dx = 0
    /\ dy = 0
    /\ width = 0
    /\ room_map = <<>>
    /\ figure = Blank
    /\ world = None
    /\ game = None
    /\ snap1 = None
    /\ snap2 = None
    /\ spc = "off"

\* ---------------------------------------------------------------- actions
\* One pass of the loops of lines 88-91.
ConstructStep ==
    /\ pc = "construct"
    /\ i < Len(roomKeys) * Len(Directions)
    /\ LET r == AdjustMinimapOrigins(rooms[SlotName(roomKeys, i)],
                    SlotDirection(i), origins, SlotName(roomKeys, i), nodes.name)
       IN  /\ origins' = r.origins
           /\ error' = r.error
           /\ IF r.error = NoError
              THEN /\ edges' = Append(edges, r.edge)
                   /\ i' = i + 1
                   /\ pc' = pc
              ELSE /\ pc' = "crashed"
                   /\ UNCHANGED <<edges, i>>
    /\ UNCHANGED <<rooms, roomKeys, location, nodes, minimap, dx, dy, width,
                   room_map, figure,
                   saveVars>>

\* Lines 93-94, after the loops.
FinishConstruct ==
    /\ pc = "construct"
    /\ i = Len(roomKeys) * Len(Directions)
    /\ minimap' = AddEdgesFrom(minimap, KeepEdges(edges))
    /\ pc' = "normalize"
    /\ UNCHANGED <<rooms, roomKeys, location, error, i, nodes, origins, edges,
                   dx, dy, width, room_map, figure,
                   saveVars>>

\* Lines 127-135; min() raises on an empty origins.
Normalize ==
    /\ pc = "normalize"
    /\ IF origins.keys = <<>>
       THEN /\ pc' = "crashed"
            /\ error' = EmptyMin
            /\ UNCHANGED <<origins, dx, dy>>
       ELSE /\ dx' = Min(Xs(origins))
            /\ dy' = Min(Ys(origins))
            /\ origins' = Shift(origins, dx', dy')
            /\ pc' = "room_map"
            /\ UNCHANGED error
    /\ UNCHANGED <<rooms, roomKeys, location, i, nodes, edges, minimap, width,
                   room_map, figure,
                   saveVars>>

\* Lines 137-147.
BuildRoomMap ==
    /\ pc = "room_map"
    /\ width' = Width(origins)
    /\ nodes' = [nodes EXCEPT !.id = Remap(origins, nodes.name, width')]
    /\ room_map' = RoomMap(origins, nodes.name, minimap, width')
    /\ pc' = "show"
    /\ UNCHANGED <<rooms, roomKeys, location, error, i, origins, edges,
                   minimap, dx, dy, figure,
                   saveVars>>

\* Lines 149-150: the show() that ends __init__; if it raises there is no Map.
InitialShow ==
    /\ pc = "show"
    /\ figure' = Show(room_map, origins.keys, location)
    /\ error' = figure'.error
    /\ pc' = IF figure'.error = NoError THEN "ready" ELSE "crashed"
    /\ UNCHANGED <<rooms, roomKeys, location, i, nodes, origins, edges,
                   minimap, dx, dy, width, room_map,
                   saveVars>>

Built == pc \in {"ready", "moved", "failed"}

\* The game moves the player to another room; the figure is now out of date.
Move ==
    /\ Built
    /\ \E r \in Range(roomKeys) :
          /\ r # location
          /\ location' = r
    /\ pc' = "moved"
    /\ UNCHANGED <<rooms, roomKeys, error, i, nodes, origins, edges, minimap,
                   dx, dy, width, room_map, figure,
                   saveVars>>

\* Map.update: show() again.
Update ==
    /\ Built
    /\ figure' = Show(room_map, origins.keys, location)
    /\ error' = figure'.error
    /\ pc' = IF figure'.error = NoError THEN "ready" ELSE "failed"
    /\ UNCHANGED <<rooms, roomKeys, location, i, nodes, origins, edges,
                   minimap, dx, dy, width, room_map,
                   saveVars>>

Next ==
    \/ ConstructStep
    \/ FinishConstruct
    \/ Normalize
    \/ BuildRoomMap
    \/ InitialShow
    \/ Move
    \/ Update

Spec == Init /\ [][Next]_vars

TypeOK ==
    /\ pc \in {"construct", "normalize", "room_map", "show", "ready", "moved",
               "failed", "crashed"}
    /\ Range(origins.keys) = DOMAIN origins.at
    /\ Len(edges) = i
\* --------------------------------------------------- what the claims use
\* The two ways of running Map.__init__ agree.
StepwiseAgrees ==
    pc \in {"ready", "crashed"} =>
        LET m == MapInit(rooms, roomKeys, location)
        IN  /\ error = m.error
            /\ pc = "ready" => /\ origins = m.origins
                               /\ room_map = m.room_map
                               /\ figure = m.figure

Keys == Range(roomKeys)
\* The rooms named by n's up/down/left/right exits.
Exits(n) == {rooms[n][d] : d \in DirSet} \ {None}
Dangling == \E n \in Keys : Exits(n) \ Keys # {}
\* The pass of the loops that comes next, while there is one.
InLoop == pc = "construct" /\ i < Len(roomKeys) * Len(Directions)
Source == SlotName(roomKeys, i)
Dest == rooms[Source][SlotDirection(i)]
\* The room and the direction of the k-th entry of edges.
EdgeSource(k) == SlotName(roomKeys, k - 1)
EdgeDirection(k) == SlotDirection(k - 1)
EdgeDest(k) == rooms[EdgeSource(k)][EdgeDirection(k)]
\* r has been reached as the destination of a processed exit.
Reached(r) == \E k \in 1..Len(edges) : EdgeDest(k) = r

\* Map.__init__ is past lines 127-135 / past line 93 / past line 147.
ShowRaised == pc = "crashed" /\ error = NotInList
Normalized == pc \in {"room_map", "show", "ready", "moved", "failed"} \/ ShowRaised
GraphBuilt == pc = "normalize" \/ Normalized
MapBuilt == pc \in {"show", "ready", "moved", "failed"} \/ ShowRaised
\* A show() has just returned or raised.
Shown == pc \in {"ready", "failed"} \/ ShowRaised

\* C1 as stated: during layout, a room that has been reached as the
\* destination of an exit keeps its origin at every later pass.
C1_FirstAssignmentWins ==
    [][pc = "construct" =>
          \A r \in Keys : (Has(origins, r) /\ Reached(r)) =>
                              origins'.at[r] = origins.at[r]]_vars

\* C1 amended: every processed non-null exit puts its destination at the
\* source's origin ((0,0) for a source not yet placed) displaced one unit
\* in the exit's direction, whether or not the destination already had an
\* origin, and moves no other room: the last exit into a room wins.
C1_LastAssignmentWins ==
    [][(InLoop /\ Dest # None) =>
          /\ origins'.at[Dest] =
                Displace(IF Has(origins, Source) THEN origins.at[Source]
                         ELSE Point(0, 0), SlotDirection(i))
          /\ \A r \in Range(origins.keys) \ {Dest} :
                origins'.at[r] = origins.at[r]]_vars

\* A room placed by an earlier exit now sits where a later exit, from
\* another room, has put it.
C1_Witness ==
    /\ pc = "construct"
    /\ \E k1, k2 \in 1..Len(edges) :
          /\ k1 < k2
          /\ EdgeDest(k1) # None
          /\ EdgeDest(k1) = EdgeDest(k2)
          /\ Cardinality({EdgeSource(k1), EdgeSource(k2), EdgeDest(k1)}) = 3
          /\ origins.at[EdgeDest(k2)] =
                Displace(origins.at[EdgeSource(k2)], EdgeDirection(k2))
          /\ origins.at[EdgeDest(k1)] #
                Displace(origins.at[EdgeSource(k1)], EdgeDirection(k1))

\* C2 as stated: after normalization the least x and the least y over the
\* assigned origins are both 0.
C2_MinIsZero ==
    Normalized => Min(Xs(origins)) = 0 /\ Min(Ys(origins)) = 0

\* C2 amended: after normalization the least x (the least y) is 0 when
\* the raw least value dx (dy) was negative, and is still dx (dy)
\* otherwise, which is positive when a later exit moved the first room
\* away from (0,0); no coordinate is negative.
C2_NormalizedMin ==
    Normalized =>
        /\ Min(Xs(origins)) = (IF dx < 0 THEN 0 ELSE dx)
        /\ Min(Ys(origins)) = (IF dy < 0 THEN 0 ELSE dy)
        /\ \A r \in Range(origins.keys) :
              origins.at[r].x >= 0 /\ origins.at[r].y >= 0

\* Normalization shifted x and left a positive least y as it was.
C2_Witness ==
    /\ Normalized
    /\ dx < 0
    /\ dy > 0
    /\ Min(Xs(origins)) = 0
    /\ Min(Ys(origins)) = dy

\* C3 as stated: with an exit that names no room of the room set, building
\* the map raises nothing, and the missing room gets no origin and no
\* room_map entry.
C3_DanglingDoesNotCrash ==
    Dangling =>
        /\ error # KeyError
        /\ \A g \in Names \ Keys :
              ~Has(origins, g) /\ g \notin DOMAIN room_map
\* The rooms with an exit to r, and the exits that name r.
Parents(r) == {n \in Keys : r \in Exits(n)}
Incoming(r) == {sl \in Slots(roomKeys) : rooms[sl[1]][sl[2]] = r}
\* The rooms reachable from the rooms of S by one exit or more.
RECURSIVE Below(_)
Below(S) ==
    LET T == S \cup UNION {Exits(n) \cap Keys : n \in S \cap Keys}
    IN  IF T = S THEN UNION {Exits(n) : n \in S \cap Keys} ELSE Below(T)
\* Acyclic, single-parent exits, each naming a room of the room set: no
\* room is below itself and at most one exit leads into a room.
Forest ==
    /\ \A r \in Keys : Cardinality(Incoming(r)) <= 1
    /\ ~Dangling
    /\ \A r \in Keys : r \notin Below({r})
FirstVisited == roomKeys[1]
ReachableFromFirst == {FirstVisited} \cup Below({FirstVisited})
Position(r) == CHOOSE k \in 1..Len(roomKeys) : roomKeys[k] = r
\* The room mapping iterates every room after its parent.
ParentsFirst ==
    \A r \in Keys : \A p \in Parents(r) : Position(p) < Position(r)

\* C4 as stated: with acyclic single-parent exits, whatever the iteration
\* order, every room reachable from the first-visited room gets an origin,
\* the origin is never reassigned to another coordinate during layout, and
\* its final x and y are not negative.
C4_StableOrigins ==
    /\ [](Normalized /\ Forest =>
            \A r \in ReachableFromFirst :
                /\ Has(origins, r)
                /\ origins.at[r].x >= 0 /\ origins.at[r].y >= 0)
    /\ [][pc = "construct" /\ Forest =>
            \A r \in ReachableFromFirst :
                Has(origins, r) => origins'.at[r] = origins.at[r]]_vars

\* C4 amended: with acyclic single-parent exits, whatever the iteration
\* order, every room reachable from the first-visited room (that room
\* itself when it has an exit) gets one origin whose final x and y are not
\* negative; during layout its origin changes only when the exit into it
\* is processed, and never changes when every room is iterated after its
\* parent.
C4_OriginsOfForest ==
    /\ [](Normalized /\ Forest =>
            \A r \in ReachableFromFirst :
                (r # FirstVisited \/ Exits(r) # {}) =>
                    /\ Has(origins, r)
                    /\ origins.at[r].x >= 0 /\ origins.at[r].y >= 0)
    /\ [][InLoop /\ Forest =>
            \A r \in ReachableFromFirst :
                (Has(origins, r) /\ (r # Dest \/ ParentsFirst)) =>
                    origins'.at[r] = origins.at[r]]_vars

\* A chain of three rooms, parents first, laid out and drawn.
C4_Witness ==
    /\ Forest
    /\ ParentsFirst
    /\ pc = "ready"
    /\ Cardinality(ReachableFromFirst) = 3
    /\ \A r \in ReachableFromFirst : Has(origins, r)

\* C5: once room_map is built, every room in it has node_id = x + y*width
\* for its normalized origin (x, y), width being the largest normalized x
\* plus one.
C5_NodeIds ==
    MapBuilt =>
        /\ DOMAIN room_map = Range(origins.keys)
        /\ \A r \in DOMAIN room_map :
              room_map[r].node_id =
                origins.at[r].x + origins.at[r].y * (Max(Xs(origins)) + 1)

\* A map two cells wide with a room off the first row and the first column.
C5_Witness ==
    /\ pc = "ready"
    /\ \E r \in DOMAIN room_map :
          /\ origins.at[r].x >= 1
          /\ origins.at[r].y >= 1
          /\ room_map[r].node_id = origins.at[r].x + origins.at[r].y * 2

\* C6: once room_map is built, if room A has room B of the room set as a
\* neighbour then B's node id is in A's edges and A's node id is in B's.
C6_Symmetry ==
    MapBuilt =>
        \A a \in Keys : \A b \in Exits(a) \cap Keys :
            /\ room_map[b].node_id \in Range(room_map[a].edges)
            /\ room_map[a].node_id \in Range(room_map[b].edges)

\* A one-way exit between two rooms at different cells, both listing the
\* other.
C6_Witness ==
    /\ pc = "ready"
    /\ \E a \in Keys : \E b \in Exits(a) \cap Keys :
          /\ a \notin Exits(b)
          /\ room_map[a].node_id # room_map[b].node_id
          /\ room_map[a].node_id \in Range(room_map[b].edges)

\* Whether the graph of __init__ joins the nodes of rooms a and b.
Joined(a, b) == nodes.name[b] \in Range(minimap.adj[nodes.name[a]])

\* C7 as stated: the graph joins two rooms exactly when one has the other
\* as a neighbour, and a room's exit to itself makes no edge.
C7_NoSelfEdges ==
    GraphBuilt =>
        \A a, b \in Keys :
            Joined(a, b) <=> (a # b /\ (b \in Exits(a) \/ a \in Exits(b)))

\* C7 amended: the graph joins rooms a and b exactly when an exit of one
\* names the other, a = b included: a null exit makes no edge, an exit of
\* a room to itself makes a loop, and the room's edge list in room_map
\* then holds the room's own node id.
C7_EdgesFollowExits ==
    /\ GraphBuilt =>
          \A a, b \in Keys :
              Joined(a, b) <=> (b \in Exits(a) \/ a \in Exits(b))
    /\ MapBuilt =>
          \A a \in Keys :
              a \in Exits(a) =>
                  room_map[a].node_id \in Range(room_map[a].edges)

\* A room with an exit to itself and a null exit, alone in its edge list.
C7_Witness ==
    /\ pc = "ready"
    /\ \E a \in Keys :
          /\ Exits(a) = {a}
          /\ \E d \in DirSet : rooms[a][d] = None
          /\ Parents(a) = {a}
          /\ room_map[a].edges = <<room_map[a].node_id>>

\* The rooms whose names show() puts on the figure: a room of room_map
\* that no later room of room_map shares its node id with.
Rendered ==
    {origins.keys[k] : k \in
        {j \in 1..Len(origins.keys) :
            \A l \in (j + 1)..Len(origins.keys) :
                room_map[origins.keys[l]].node_id #
                    room_map[origins.keys[j]].node_id}}
Highlighted ==
    {figure.nodes[k] : k \in {j \in 1..Len(figure.colors) : figure.colors[j] = "red"}}

\* C8: when show() or update() runs with the player's location not among
\* the rendered labels, the call raises and paints no node.
C8_FailsLoudly ==
    (Shown /\ location \notin Rendered) =>
        /\ error = NotInList
        /\ figure.nodes = <<>>
        /\ Highlighted = {}

\* update() has raised with the player in a room that has no coordinate.
C8_Witness ==
    /\ pc = "failed"
    /\ ~Has(origins, location)
    /\ error = NotInList
    /\ figure.nodes = <<>>

\* C10 as stated: after any moves and redraws, when the player's location
\* has a coordinate in origins the redraw raises nothing and paints red
\* exactly the node with that room's node id, and every other node blue,
\* two rooms sharing a cell included.
C10_HighlightsPlayer ==
    (Shown /\ Has(origins, location)) =>
        /\ error = NoError
        /\ Highlighted = {room_map[location].node_id}
        /\ \A k \in 1..Len(figure.colors) :
              figure.nodes[k] # room_map[location].node_id =>
                  figure.colors[k] = "blue"

\* C9: for a world document from which Game() can be built, Game() can be
\* built from its save() too, and the save() of that Game equals the
\* first save().
C9_RoundTrip ==
    /\ spc # "reload failed"
    /\ spc = "done" => snap2 = snap1

\* A round trip of a document with a field the classes never read and a
\* room without a door, which the snapshot records as None.
C9_Witness ==
    /\ spc = "done"
    /\ "name" \in DOMAIN world.player
    /\ \E r \in DOMAIN world.rooms.at :
          /\ "door" \notin DOMAIN world.rooms.at[r]
          /\ snap1.rooms.at[r].door = None
          /\ snap1.rooms.at[r].fight = "fight"
    /\ snap2 = snap1
====
